---- MODULE Spec2Model ----
(***************************************************************************)
(* Model of the text-formatting command-line utility (lib_textwrap/Python): *)
(* main.py (entry point), cli.py (driver main and format_file),             *)
(* file_handler.py (FileHandler) and formatter.py (TextFormatter).          *)
(*                                                                          *)
(* A Python str is a tuple of one-character strings, so that concatenation, *)
(* suffix tests, pathlib's stem/suffix split and the code-point order used  *)
(* by sorted() are computed rather than assumed.  An optional value (an     *)
(* argparse attribute that is None when the option is absent) is <<>> when  *)
(* absent and <<v>> when given.                                             *)
(***************************************************************************)
EXTENDS Integers, Sequences, FiniteSets, TLC

VARIABLES
    argv,             \* the options given on the command line (sys.argv[1:])
    args,             \* the options main() works with (argparse.Namespace)
    fs,               \* the filesystem: path -> entry (file or directory)
    fs0,              \* the filesystem when the run started (history)
    pc,               \* position of the run
    files_to_process, \* cli.py main: the resolved file list
    idx,              \* 1-based position of the for loop in files_to_process
    processed_count,  \* cli.py main: the success counter
    stdout,           \* lines printed to the standard stream
    stderr,           \* lines printed to the error stream
    reads,            \* history of FileHandler.read_file calls
    writes,           \* history of completed FileHandler.write_file calls
    interrupted,      \* <<i>> once a KeyboardInterrupt arrived at position i
    exit,             \* <<status>> once the process has ended
    find_call         \* <<call>>: a direct call of FileHandler.find_text_files

vars == <<argv, args, fs, fs0, pc, files_to_process, idx, processed_count,
          stdout, stderr, reads, writes, interrupted, exit, find_call>>

----------------------------------------------------------------------------
(* Bounds of the model.                                                    *)

\* at most this many entries in the scanned directory
MaxEntries == 2
\* at most this many extensions in a direct find_text_files call
MaxExts == 2

----------------------------------------------------------------------------
(* Strings.                                                                *)

\* the characters that occur, in code-point order (str comparison of sorted())
Alphabet ==
    <<".", "/", "_", "a", "b", "c", "d", "e", "f", "m", "n", "o", "r", "s", "t", "u", "x">>

Ord(c) == CHOOSE i \in 1..Len(Alphabet) : Alphabet[i] = c

RECURSIVE StrLess(_, _)
\* Python's s < t on str: lexicographic by code point, a proper prefix is smaller
StrLess(s, t) ==
    IF t = <<>> THEN FALSE
    ELSE IF s = <<>> THEN TRUE
    ELSE IF Ord(Head(s)) # Ord(Head(t)) THEN Ord(Head(s)) < Ord(Head(t))
    ELSE StrLess(Tail(s), Tail(t))

\* str.endswith, as the glob pattern "*<ext>" matches a name
EndsWith(s, suf) ==
    /\ Len(suf) <= Len(s)
    /\ SubSeq(s, Len(s) - Len(suf) + 1, Len(s)) = suf

\* the positions of character c in s
Positions(s, c) == {i \in 1..Len(s) : s[i] = c}

Max(S) == CHOOSE x \in S : \A y \in S : y <= x

----------------------------------------------------------------------------
(* Paths (pathlib.Path).                                                   *)

\* Path.name: what follows the last "/"
PathName(p) ==
    IF Positions(p, "/") = {} THEN p
    ELSE SubSeq(p, Max(Positions(p, "/")) + 1, Len(p))

\* Path.parent: what precedes the last "/" ("." for a bare name)
PathParent(p) ==
    IF Positions(p, "/") = {} THEN <<".">>
    ELSE SubSeq(p, 1, Max(Positions(p, "/")) - 1)

\* Path(dir) / name
PathJoin(dir, name) == dir \o <<"/">> \o name

\* Path.suffix: from the last dot, unless that dot is the first or the last
\* character of the name
PathSuffix(p) ==
    LET name == PathName(p)
        dots == Positions(name, ".")
    IN  IF dots = {} THEN <<>>
        ELSE IF Max(dots) > 1 /\ Max(dots) < Len(name)
             THEN SubSeq(name, Max(dots), Len(name))
             ELSE <<>>

\* Path.stem: the name without its suffix
PathStem(p) ==
    LET name == PathName(p)
    IN  SubSeq(name, 1, Len(name) - Len(PathSuffix(p)))

----------------------------------------------------------------------------
(* Filesystem entries and file contents.                                   *)
(* A content is the text of a file: the file it came from (src), the        *)
(* transformations applied to it since (ops), and what a transformation     *)
(* observes of it (kind): "words" holds a non-whitespace character, "blank" *)
(* is whitespace only, "empty" is the empty string, "partial" is what an    *)
(* interrupted write left behind.                                           *)

Raw(path, kind) == [src |-> path, ops |-> <<>>, kind |-> kind]

DirEntry == [type |-> "dir"]
\* access = FALSE: open() on the file raises PermissionError
FileEntry(content, access) ==
    [type |-> "file", content |-> content, access |-> access]

Exists(f, p) == p \in DOMAIN f
IsDir(f, p) == Exists(f, p) /\ f[p].type = "dir"
IsFile(f, p) == Exists(f, p) /\ f[p].type = "file"

\* the entries directly inside directory d (Path.glob is not recursive)
Children(f, d) == {p \in DOMAIN f : Positions(p, "/") # {} /\ PathParent(p) = d}

\* mkdir(parents=True, exist_ok=True) of a single-level directory:
\* FileExistsError when the path is a regular file
MkdirFails(f, d) == IsFile(f, d)
Mkdir(f, d) == IF Exists(f, d) THEN f ELSE (d :> DirEntry) @@ f

----------------------------------------------------------------------------
(* Exceptions.  Python's `except Exception` catches every class modelled    *)
(* here but KeyboardInterrupt, which derives from BaseException only.       *)

NoExc == [class |-> "none", name |-> "none"]
Raise(name) == [class |-> "Exception", name |-> name]
KeyboardInterrupt == [class |-> "KeyboardInterrupt", name |-> "KeyboardInterrupt"]

----------------------------------------------------------------------------
(* file_handler.py: FileHandler.                                           *)

NoContent == [src |-> <<>>, ops |-> <<>>, kind |-> "empty"]

\* FileHandler.read_file
read_file(f, file_path) ==
    IF ~Exists(f, file_path) THEN [exc |-> Raise("FileNotFoundError"), value |-> NoContent]
    ELSE IF ~IsFile(f, file_path) THEN [exc |-> Raise("ValueError"), value |-> NoContent]
    ELSE IF ~f[file_path].access THEN [exc |-> Raise("PermissionError"), value |-> NoContent]
    ELSE [exc |-> NoExc, value |-> f[file_path].content]

\* FileHandler.write_file: parent directories are created, then the file is
\* opened for writing (an existing file is overwritten)
write_file(f, file_path, content) ==
    LET parent == PathParent(file_path) IN
    IF MkdirFails(f, parent) THEN [exc |-> Raise("OSError"), fs |-> f]
    ELSE IF IsDir(f, file_path) THEN [exc |-> Raise("OSError"), fs |-> Mkdir(f, parent)]
    ELSE IF IsFile(f, file_path) /\ ~f[file_path].access
         THEN [exc |-> Raise("PermissionError"), fs |-> Mkdir(f, parent)]
    ELSE [exc |-> NoExc,
          fs |-> (file_path :> FileEntry(content, TRUE)) @@ Mkdir(f, parent)]

RECURSIVE SetToSeq(_)
\* the order in which a directory scan yields its entries (unspecified; the
\* result is sorted before it is returned)
SetToSeq(S) ==
    IF S = {} THEN <<>>
    ELSE LET x == CHOOSE y \in S : TRUE IN <<x>> \o SetToSeq(S \ {x})

\* path.glob("*<ext>"): the entries of the directory whose name ends with ext
Glob(f, directory, ext) ==
    SetToSeq({p \in Children(f, directory) : EndsWith(PathName(p), ext)})

RECURSIVE GlobAll(_, _, _)
\* the loop `for ext in extensions: files.extend(path.glob(...))`
GlobAll(f, directory, extensions) ==
    IF extensions = <<>> THEN <<>>
    ELSE Glob(f, directory, Head(extensions)) \o GlobAll(f, directory, Tail(extensions))

\* sorted(..., reverse=True)
SortedDescending(s) == SortSeq(s, LAMBDA x, y : StrLess(y, x))

\* sorted(...) on path strings
Sorted(s) == SortSeq(s, LAMBDA x, y : StrLess(x, y))

\* the default of the extensions parameter: ['.txt']
DefaultExtensions == << <<".", "t", "x", "t">> >>

\* FileHandler.find_text_files; extensions is <<>> (None) or <<list>>
find_text_files(f, directory, extensions) ==
    LET exts == IF extensions = <<>> THEN DefaultExtensions ELSE extensions[1] IN
    IF ~Exists(f, directory) THEN [exc |-> Raise("FileNotFoundError"), value |-> <<>>]
    ELSE IF ~IsDir(f, directory) THEN [exc |-> Raise("NotADirectoryError"), value |-> <<>>]
    ELSE [exc |-> NoExc,
          value |-> Sorted(SelectSeq(GlobAll(f, directory, exts),
                                     LAMBDA p : IsFile(f, p)))]

\* the default of the suffix parameter: "_formatted"
DefaultSuffix == <<"_", "f", "o", "r", "m", "a", "t", "t", "e", "d">>

\* FileHandler.get_output_path; output_dir is <<>> (None) or <<dir>>
get_output_path(f, input_path, output_dir) ==
    LET name == PathStem(input_path) \o DefaultSuffix \o PathSuffix(input_path) IN
    IF output_dir # <<>> /\ output_dir[1] # <<>>
    THEN IF MkdirFails(f, output_dir[1])
         THEN [exc |-> Raise("FileExistsError"), fs |-> f, value |-> <<>>]
         ELSE [exc |-> NoExc, fs |-> Mkdir(f, output_dir[1]),
               value |-> PathJoin(output_dir[1], name)]
    ELSE [exc |-> NoExc, fs |-> f, value |-> PathJoin(PathParent(input_path), name)]

----------------------------------------------------------------------------
(* formatter.py: TextFormatter.  The wrap width is positive throughout.     *)

Op(name, width, indent) == [op |-> name, width |-> width, indent |-> indent]

Apply(c, op, kind) == [c EXCEPT !.ops = Append(@, op), !.kind = kind]

\* whitespace-only or empty text: `not text.strip()`
IsBlank(c) == c.kind \in {"blank", "empty"}

\* the wrapper's fill with the given indents; "" for blank text
FillWith(c, indent) ==
    Apply(c, Op("fill", 0, indent), IF IsBlank(c) THEN "empty" ELSE c.kind)

\* TextFormatter.fill
fill(c) == [exc |-> NoExc, value |-> FillWith(c, <<>>)]

\* TextFormatter.dedent_text: only leading blanks and tabs are removed
dedent_text(c) == [exc |-> NoExc, value |-> Apply(c, Op("dedent", 0, <<>>), c.kind)]

\* len("...") : the default placeholder of TextFormatter.shorten
PlaceholderLen == 3

\* TextFormatter.shorten: textwrap raises ValueError when the placeholder does
\* not fit the width
shorten(c, width) ==
    IF width < PlaceholderLen THEN [exc |-> Raise("ValueError"), value |-> NoContent]
    ELSE [exc |-> NoExc,
          value |-> Apply(c, Op("shorten", width, <<>>),
                          IF IsBlank(c) THEN "empty" ELSE c.kind)]

\* TextFormatter.format_with_prefix: fill of a formatter whose indents are prefix
format_with_prefix(c, prefix) == [exc |-> NoExc, value |-> FillWith(c, prefix)]

\* TextFormatter.format_paragraphs (texts without a whitespace-only paragraph
\* between two separators: a blank text is a single blank paragraph)
format_paragraphs(c) ==
    [exc |-> NoExc,
     value |-> Apply(c, Op("paragraphs", 0, <<>>),
                     IF IsBlank(c) THEN "empty" ELSE c.kind)]

----------------------------------------------------------------------------
(* cli.py: the options.                                                    *)

\* the Namespace of a command line without options (argparse defaults);
\* `other` stands for the options that only tune the wrapper (-w,
\* --no-break-long-words)
NoArgs ==
    [input |-> <<>>, directory |-> <<>>, prefix |-> <<>>, dedent |-> FALSE,
     shorten |-> <<>>, preserve_paragraphs |-> FALSE, output |-> <<>>,
     output_file |-> <<>>, verbose |-> FALSE, other |-> FALSE]

\* truth value of an optional str attribute: None and "" are false
TruthyStr(opt) == opt # <<>> /\ opt[1] # <<>>
\* truth value of an optional int attribute: None and 0 are false
TruthyInt(opt) == opt # <<>> /\ opt[1] # 0

\* the data directory main.py falls back to
DataDir == <<"d">>

\* main.py: a command line without any argument becomes -d <data> -w 70
MainPyArgv(av) ==
    IF av = NoArgs THEN [NoArgs EXCEPT !.directory = <<DataDir>>, !.other = TRUE]
    ELSE av

\* main() without its check of the options
UsageErrorNever(a) == FALSE

\* cli.py main: `if not args.input and not args.directory: parser.error(...)`
UsageError(a) == ~TruthyStr(a.input) /\ ~TruthyStr(a.directory)

\* the status argparse's parser.error() exits with
UsageExit == 2
\* the status main() returns on KeyboardInterrupt
InterruptExit == 130

----------------------------------------------------------------------------
(* cli.py: format_file.                                                    *)

Line(msg, path, content) == [msg |-> msg, path |-> path, content |-> content]

\* a bare `except:` clause in its place
ExceptAnything(exc) == exc.class # "none"

\* an `except Exception` clause catches exc
ExceptException(exc) == exc.class = "Exception"

\* lines 123-130 of format_file on the (possibly dedented) content d;
\* ev = "transform" is a KeyboardInterrupt arriving during the transformation
TransformBranch(d, a, ev) ==
    IF ev = "transform" THEN [exc |-> KeyboardInterrupt, value |-> NoContent]
    ELSE IF TruthyInt(a.shorten) THEN shorten(d, a.shorten[1])
    ELSE IF a.preserve_paragraphs THEN format_paragraphs(d)
    ELSE IF TruthyStr(a.prefix) THEN format_with_prefix(d, a.prefix[1])
    ELSE fill(d)

\* lines 120-130 of format_file: dedent if requested, then one transformation
Transform(c, a, ev) ==
    TransformBranch(IF a.dedent THEN dedent_text(c).value ELSE c, a, ev)

\* line 118 of format_file; ev = "read" is a KeyboardInterrupt arriving
\* during read_file
ReadStep(f, file_path, ev) ==
    IF ev = "read" THEN [exc |-> KeyboardInterrupt, value |-> NoContent]
    ELSE read_file(f, file_path)

\* the try body of format_file (lines 118-132), given the outcome rd of the read
FormatFileTry(rd, a, ev) ==
    IF rd.exc # NoExc THEN rd ELSE Transform(rd.value, a, ev)

\* format_file's except clause without its message
FormatFileExceptSilent(s, tr, file_path, a) ==
    IF tr.exc = NoExc THEN [s |-> s, exc |-> NoExc, value |-> tr.value, ki |-> FALSE]
    ELSE IF ExceptException(tr.exc) /\ ~a.verbose
    THEN [s |-> s, exc |-> NoExc, value |-> NoContent,
          ki |-> tr.exc.class = "KeyboardInterrupt"]
    ELSE [s |-> s, exc |-> tr.exc, value |-> NoContent,
          ki |-> tr.exc.class = "KeyboardInterrupt"]

\* format_file's except clause (lines 134-139) and its result, given the
\* outcome tr of the try body.  ki: a KeyboardInterrupt was raised.
FormatFileExcept(s, tr, file_path, a) ==
    IF tr.exc = NoExc THEN [s |-> s, exc |-> NoExc, value |-> tr.value, ki |-> FALSE]
    ELSE IF ExceptException(tr.exc) /\ ~a.verbose
    THEN [s |-> [s EXCEPT !.stderr = Append(@, Line("error", file_path, NoContent))],
          exc |-> NoExc, value |-> NoContent,
          ki |-> tr.exc.class = "KeyboardInterrupt"]
    ELSE [s |-> s, exc |-> tr.exc, value |-> NoContent,
          ki |-> tr.exc.class = "KeyboardInterrupt"]

\* the read_file call of format_file entered in the history
LogRead(s, file_path, rd) ==
    [s EXCEPT !.reads = Append(@, [path |-> file_path, exc |-> rd.exc,
                                   content |-> rd.value])]

FormatFileRead(s, file_path, a, ev, rd) ==
    FormatFileExcept(LogRead(s, file_path, rd), FormatFileTry(rd, a, ev), file_path, a)

\* format_file on the loop state s
format_file(s, file_path, a, ev) ==
    FormatFileRead(s, file_path, a, ev, ReadStep(s.fs, file_path, ev))

----------------------------------------------------------------------------
(* cli.py: main, the per-file loop (lines 175-210).                        *)

\* `not formatted_content`: the empty string
Falsy(c) == c.kind = "empty"

\* what an interrupted write leaves in the file it had opened
Partial(c) == [c EXCEPT !.kind = "partial"]

\* the state the loop works on
LoopState(f, out, err, count, rd, wr) ==
    [fs |-> f, stdout |-> out, stderr |-> err, processed_count |-> count,
     reads |-> rd, writes |-> wr]

\* lines 195-200 after write_file returned or raised (outcome w); ev = "saved"
\* is a KeyboardInterrupt arriving during the verbose line that follows the write
Written(s, w, file_path, output_path, content, pos, a, ev) ==
    IF w.exc # NoExc
    THEN [s |-> [s EXCEPT !.fs = w.fs], exc |-> w.exc, ki |-> FALSE]
    ELSE IF ev = "saved" /\ a.verbose
    THEN [s |-> [s EXCEPT
             !.fs = w.fs,
             !.writes = Append(@, [path |-> output_path, content |-> content,
                                   pos |-> pos, from |-> file_path])],
          exc |-> KeyboardInterrupt, ki |-> TRUE]
    ELSE [s |-> [s EXCEPT
             !.fs = w.fs,
             !.writes = Append(@, [path |-> output_path, content |-> content,
                                   pos |-> pos, from |-> file_path]),
             !.stdout = IF a.verbose
                        THEN Append(@, Line("saved", output_path, NoContent))
                        ELSE @,
             !.processed_count = @ + 1],
          exc |-> NoExc, ki |-> FALSE]

\* a KeyboardInterrupt arriving while write_file writes (w: the outcome of
\* opening the file and writing a part of the content)
WriteInterrupted(s, w) ==
    [s |-> [s EXCEPT !.fs = IF w.exc = NoExc THEN w.fs ELSE s.fs],
     exc |-> KeyboardInterrupt, ki |-> TRUE]

\* lines 195-200: write_file, the verbose line, the counter; ev = "output" is
\* a KeyboardInterrupt arriving while the file is being written
WriteOut(s, file_path, output_path, content, pos, a, ev) ==
    IF ev = "output"
    THEN WriteInterrupted(s, write_file(s.fs, output_path, Partial(content)))
    ELSE Written(s, write_file(s.fs, output_path, content), file_path, output_path,
                 content, pos, a, ev)

\* lines 190-193: the output on the standard stream
PrintOut(s, file_path, content, ev) ==
    IF ev = "output"
    THEN [s |-> [s EXCEPT !.stdout = Append(@, Line("header", file_path, NoContent))],
          exc |-> KeyboardInterrupt, ki |-> TRUE]
    ELSE [s |-> [s EXCEPT
             !.stdout = @ \o <<Line("header", file_path, NoContent),
                               Line("content", file_path, content)>>,
             !.processed_count = @ + 1],
          exc |-> NoExc, ki |-> FALSE]

\* lines 188 and 195-200, given the outcome g of get_output_path
WriteDerived(s, g, file_path, content, pos, a, ev) ==
    IF g.exc # NoExc THEN [s |-> s, exc |-> g.exc, ki |-> FALSE]
    ELSE WriteOut([s EXCEPT !.fs = g.fs], file_path, g.value, content, pos, a, ev)

\* the destination chosen with the output directory first
RouteDirectoryFirst(s, file_path, content, pos, n, a, ev) ==
    IF TruthyStr(a.output)
    THEN WriteDerived(s, get_output_path(s.fs, file_path, a.output), file_path,
                      content, pos, a, ev)
    ELSE IF TruthyStr(a.output_file) /\ n = 1
    THEN WriteOut(s, file_path, a.output_file[1], content, pos, a, ev)
    ELSE PrintOut(s, file_path, content, ev)

\* lines 185-200: the choice of the destination and the output, for the file
\* at position pos of n
Route(s, file_path, content, pos, n, a, ev) ==
    IF TruthyStr(a.output_file) /\ n = 1
    THEN WriteOut(s, file_path, a.output_file[1], content, pos, a, ev)
    ELSE IF TruthyStr(a.output)
    THEN WriteDerived(s, get_output_path(s.fs, file_path, a.output), file_path,
                      content, pos, a, ev)
    ELSE PrintOut(s, file_path, content, ev)

\* lines 182-200, given the outcome ff of format_file
AfterFormat(ff, file_path, pos, n, a, ev) ==
    IF ff.exc # NoExc THEN [s |-> ff.s, exc |-> ff.exc, ki |-> ff.ki]
    ELSE IF Falsy(ff.value) /\ ~a.verbose THEN [s |-> ff.s, exc |-> NoExc, ki |-> ff.ki]
    ELSE Route(ff.s, file_path, ff.value, pos, n, a, ev)

\* lines 177-178: the verbose line that opens an iteration
Announce(s, file_path, a) ==
    IF a.verbose
    THEN [s EXCEPT !.stdout = Append(@, Line("processing", file_path, NoContent))]
    ELSE s

\* the try body of the loop (lines 177-200)
TryBody(s, file_path, pos, n, a, ev) ==
    AfterFormat(format_file(Announce(s, file_path, a), file_path, a, ev),
                file_path, pos, n, a, ev)

\* the except clauses of the loop with `return 1` in place of `continue`
HandlersAbort(t, file_path, a) ==
    IF t.exc.class = "KeyboardInterrupt"
    THEN [s |-> [t.s EXCEPT !.stderr = Append(@, Line("interrupted", <<>>, NoContent))],
          status |-> <<InterruptExit>>, ki |-> t.ki]
    ELSE IF ExceptException(t.exc)
    THEN [s |-> [t.s EXCEPT !.stderr = Append(@, Line("error", file_path, NoContent))],
          status |-> <<1>>, ki |-> t.ki]
    ELSE [s |-> t.s, status |-> <<>>, ki |-> t.ki]

\* the except clauses of the loop (lines 202-210), given the outcome t of the
\* try body; status is <<130>> when main returns, <<>> when the loop goes on
Handlers(t, file_path, a) ==
    IF t.exc.class = "KeyboardInterrupt"
    THEN [s |-> [t.s EXCEPT !.stderr = Append(@, Line("interrupted", <<>>, NoContent))],
          status |-> <<InterruptExit>>, ki |-> t.ki]
    ELSE IF ExceptException(t.exc)
    THEN [s |-> [t.s EXCEPT !.stderr =
                    (IF a.verbose
                     THEN Append(@, Line("traceback", file_path, NoContent))
                     ELSE @) \o <<Line("error", file_path, NoContent)>>],
          status |-> <<>>, ki |-> t.ki]
    ELSE [s |-> t.s, status |-> <<>>, ki |-> t.ki]

\* one iteration of the loop (lines 176-210)
LoopBody(s, file_path, pos, n, a, ev) ==
    Handlers(TryBody(s, file_path, pos, n, a, ev), file_path, a)

\* lines 161-168, given the outcome r of find_text_files
Scanned(r, directory) ==
    IF ExceptException(r.exc)
    THEN [files |-> <<>>, status |-> <<1>>,
          err |-> <<Line("find_error", directory, NoContent)>>]
    ELSE IF r.value = <<>>
    THEN [files |-> <<>>, status |-> <<1>>,
          err |-> <<Line("no_files", directory, NoContent)>>]
    ELSE [files |-> r.value, status |-> <<>>, err |-> <<>>]

\* lines 158-168: the file list.  status is <<1>> when main returns here.
ResolveList(f, a) ==
    IF TruthyStr(a.input)
    THEN [files |-> <<a.input[1]>>, status |-> <<>>, err |-> <<>>]
    ELSE IF TruthyStr(a.directory)
    THEN Scanned(find_text_files(f, a.directory[1], <<>>), a.directory[1])
    ELSE [files |-> <<>>, status |-> <<>>, err |-> <<>>]

\* the status with `>=` in place of `>`
FinalStatusAtLeast(count) == IF count >= 0 THEN 0 ELSE 1

\* line 215: the status main returns after the loop
FinalStatus(count) == IF count > 0 THEN 0 ELSE 1

RECURSIVE RunLoop(_, _, _, _)
\* the loop of lines 175-210 from position pos on, no interrupt arriving
RunLoop(s, files, pos, a) ==
    IF pos > Len(files) THEN s
    ELSE RunLoop(LoopBody(s, files[pos], pos, Len(files), a, "none").s,
                 files, pos + 1, a)

\* lines 212-215: what main leaves behind, the status and the filesystem
Returned(s) == [exit |-> FinalStatus(s.processed_count), fs |-> s.fs]

\* lines 163-215, given the file list r
MainFrom(f, a, r) ==
    IF r.status # <<>> THEN [exit |-> r.status[1], fs |-> f]
    ELSE Returned(RunLoop(LoopState(f, <<>>, <<>>, 0, <<>>, <<>>), r.files, 1, a))

\* main() from line 158 on, run to its end on filesystem f with options a
MainOutcome(f, a) == MainFrom(f, a, ResolveList(f, a))

----------------------------------------------------------------------------
(* The environment a run starts in.                                        *)

InputFile == <<"d", "/", "a", ".", "t", "x", "t">>
OutDir == <<"o", "u", "t">>
OtherFile == <<"d", "/", "c", ".", "m", "d">>

\* names an entry of the scanned directory may have
DirNames ==
    { <<"a", ".", "t", "x", "t">>,
      <<"a", "_", "f", "o", "r", "m", "a", "t", "t", "e", "d", ".", "t", "x", "t">>,
      <<"c", ".", "m", "d">> }

\* what an entry may be: a file with words, a whitespace-only file, a file
\* that cannot be opened, a directory
EntryKinds == {"words", "blank", "noaccess", "dir"}

Entry(path, k) ==
    IF k = "dir" THEN DirEntry
    ELSE IF k = "noaccess" THEN FileEntry(Raw(path, "words"), FALSE)
    ELSE FileEntry(Raw(path, k), TRUE)

\* the filesystems: the data directory with at most MaxEntries entries, or no
\* data directory at all
Filesystems ==
    { [p \in {} |-> DirEntry] } \cup
    { [p \in {DataDir} \cup {PathJoin(DataDir, nm) : nm \in DOMAIN listing} |->
          IF p = DataDir THEN DirEntry ELSE Entry(p, listing[PathName(p)])] :
      listing \in UNION { [S -> EntryKinds] :
                          S \in {T \in SUBSET DirNames : Cardinality(T) <= MaxEntries} } }

\* the command lines
CommandLines ==
    { a \in [input : {<<>>, <<InputFile>>},
             directory : {<<>>, <<DataDir>>},
             prefix : {<<>>, << <<">", " ">> >>},
             dedent : BOOLEAN,
             shorten : {<<>>, <<0>>, <<2>>, <<10>>},
             preserve_paragraphs : BOOLEAN,
             output : {<<>>, <<DataDir>>, <<OutDir>>},
             output_file : {<<>>, <<OtherFile>>},
             verbose : BOOLEAN,
             other : BOOLEAN] :
      a.other => [a EXCEPT !.other = FALSE] = NoArgs }

\* extension lists of a direct find_text_files call
Extensions == { <<".", "t", "x", "t">>, <<"t", "x", "t">>, <<".", "m", "d">> }
ExtensionLists == UNION { [1..n -> Extensions] : n \in 0..MaxExts }

Init ==
    /\ argv \in CommandLines
    /\ args = NoArgs
    /\ fs \in Filesystems
    /\ fs0 = fs
    /\ pc = "start"
    /\ files_to_process = <<>>
    /\ idx = 0
    /\ processed_count = 0
    /\ stdout = <<>>
    /\ stderr = <<>>
    /\ reads = <<>>
    /\ writes = <<>>
    /\ interrupted = <<>>
    /\ exit = <<>>
    /\ find_call = <<>>

----------------------------------------------------------------------------
(* The run: main.py, then cli.py main.                                     *)

\* main.py lines 12-18 and cli.py lines 144-156: the command line is
\* completed and parsed; without input and directory parser.error() ends the
\* process
ParseArgs ==
    /\ pc = "start"
    /\ IF UsageError(MainPyArgv(argv))
       THEN /\ stderr' = Append(stderr, Line("usage", <<>>, NoContent))
            /\ exit' = <<UsageExit>>
            /\ pc' = "done"
            /\ UNCHANGED args
       ELSE /\ args' = MainPyArgv(argv)
            /\ pc' = "resolve"
            /\ UNCHANGED <<stderr, exit>>
    /\ UNCHANGED <<argv, fs, fs0, files_to_process, idx, processed_count, stdout,
                   reads, writes, interrupted, find_call>>

\* the effect of the file list r on the run (lines 163-171)
Resolved(r) ==
    /\ files_to_process' = r.files
    /\ stderr' = stderr \o r.err
    /\ IF r.status # <<>>
       THEN /\ exit' = r.status
            /\ pc' = "done"
            /\ UNCHANGED <<stdout, idx, processed_count>>
       ELSE /\ stdout' = IF args.verbose
                         THEN Append(stdout, Line("found", <<>>, NoContent))
                         ELSE stdout
            /\ processed_count' = 0
            /\ idx' = 1
            /\ pc' = "loop"
            /\ UNCHANGED exit

\* cli.py lines 158-173
ResolveFiles ==
    /\ pc = "resolve"
    /\ Resolved(ResolveList(fs, args))
    /\ UNCHANGED <<argv, args, fs, fs0, reads, writes, interrupted, find_call>>

\* the loop state of the run
Current == LoopState(fs, stdout, stderr, processed_count, reads, writes)

\* the effect of one iteration with outcome r on the run
Iterate(r) ==
    /\ fs' = r.s.fs
    /\ stdout' = r.s.stdout
    /\ stderr' = r.s.stderr
    /\ processed_count' = r.s.processed_count
    /\ reads' = r.s.reads
    /\ writes' = r.s.writes
    /\ IF r.status # <<>>
       THEN exit' = r.status /\ pc' = "done" /\ idx' = idx
       ELSE exit' = exit /\ pc' = pc /\ idx' = idx + 1

\* cli.py lines 175-210: one iteration without an interrupt
ProcessFile ==
    /\ pc = "loop"
    /\ idx <= Len(files_to_process)
    /\ Iterate(LoopBody(Current, files_to_process[idx], idx, Len(files_to_process),
                        args, "none"))
    /\ UNCHANGED <<argv, args, fs0, files_to_process, interrupted, find_call>>

\* an iteration in which the KeyboardInterrupt did arrive
Arrived(r) == r.ki /\ Iterate(r)

\* where a KeyboardInterrupt may arrive within an iteration
InterruptPoints == {"read", "transform", "output", "saved"}

\* cli.py lines 175-210: one iteration during which a KeyboardInterrupt arrives
Interrupt ==
    /\ pc = "loop"
    /\ idx <= Len(files_to_process)
    /\ \E ev \in InterruptPoints :
          Arrived(LoopBody(Current, files_to_process[idx], idx, Len(files_to_process),
                           args, ev))
    /\ interrupted' = <<idx>>
    /\ UNCHANGED <<argv, args, fs0, files_to_process, find_call>>

\* cli.py lines 212-215
Finish ==
    /\ pc = "loop"
    /\ idx > Len(files_to_process)
    /\ stdout' = IF args.verbose THEN Append(stdout, Line("summary", <<>>, NoContent))
                 ELSE stdout
    /\ exit' = <<FinalStatus(processed_count)>>
    /\ pc' = "done"
    /\ UNCHANGED <<argv, args, fs, fs0, files_to_process, idx, processed_count, stderr,
                   reads, writes, interrupted, find_call>>

Next == ParseArgs \/ ResolveFiles \/ ProcessFile \/ Interrupt \/ Finish

Spec == Init /\ [][Next]_vars

----------------------------------------------------------------------------
(* A direct call of FileHandler.find_text_files with an extension list.    *)

InitFind ==
    /\ argv = NoArgs
    /\ args = NoArgs
    /\ fs \in Filesystems
    /\ fs0 = fs
    /\ pc = "find"
    /\ files_to_process = <<>>
    /\ idx = 0
    /\ processed_count = 0
    /\ stdout = <<>>
    /\ stderr = <<>>
    /\ reads = <<>>
    /\ writes = <<>>
    /\ interrupted = <<>>
    /\ exit = <<>>
    /\ find_call = <<>>

FindCall ==
    /\ pc = "find"
    /\ \E exts \in ExtensionLists :
          find_call' = <<[directory |-> DataDir, extensions |-> exts,
                          result |-> find_text_files(fs, DataDir, <<exts>>)]>>
    /\ pc' = "done"
    /\ UNCHANGED <<argv, args, fs, fs0, files_to_process, idx, processed_count, stdout,
                   stderr, reads, writes, interrupted, exit>>

NextFind == FindCall

SpecFind == InitFind /\ [][NextFind]_vars

----------------------------------------------------------------------------
(* What the histories say about the file at position j of the list.        *)

TxtExt == <<".", "t", "x", "t">>

\* the result was written to a file
WrittenAt(j) == {k \in 1..Len(writes) : writes[k].pos = j}

\* the result was printed to the standard stream
PrintedAt(j) ==
    {k \in 1..Len(stdout) :
        stdout[k].msg = "content" /\ stdout[k].path = files_to_process[j]}

Delivered(j) == WrittenAt(j) # {} \/ PrintedAt(j) # {}

\* a message about the file is on the error stream
Reported(j) ==
    \E k \in 1..Len(stderr) :
        stderr[k].msg = "error" /\ stderr[k].path = files_to_process[j]

ReadRaised(j) == reads[j].exc # NoExc

TransformRaised(j) ==
    ~ReadRaised(j) /\ Transform(reads[j].content, args, "none").exc # NoExc

\* read and transformed; the result is one the loop does not skip
Deliverable(j) ==
    /\ ~ReadRaised(j)
    /\ ~TransformRaised(j)
    /\ args.verbose \/ ~Falsy(Transform(reads[j].content, args, "none").value)

\* the output of a deliverable result raised
WriteRaised(j) == Deliverable(j) /\ ~Delivered(j)

\* some file was read, transformed and printed or written without error
SuccessfullyProcessed ==
    writes # <<>> \/ \E k \in 1..Len(stdout) : stdout[k].msg = "content"

\* the run scans a directory that holds no regular file named *.txt
EmptyScan ==
    /\ ~TruthyStr(args.input)
    /\ TruthyStr(args.directory)
    /\ IsDir(fs0, args.directory[1])
    /\ ~\E p \in DOMAIN fs0 :
          /\ Positions(p, "/") # {}
          /\ PathParent(p) = args.directory[1]
          /\ IsFile(fs0, p)
          /\ EndsWith(p, TxtExt)

----------------------------------------------------------------------------
(* C1: a run that got past the options and was not interrupted returns 0   *)
(* exactly when at least one file was read, transformed and printed or      *)
(* written without error, and 1 otherwise; a directory scan that yields no  *)
(* file returns 1 with a message on the error stream and writes nothing.    *)
C1_ExitStatus ==
    (pc = "done" /\ interrupted = <<>> /\ exit # <<UsageExit>>) =>
        /\ exit = <<IF SuccessfullyProcessed THEN 0 ELSE 1>>
        /\ EmptyScan => (exit = <<1>> /\ stderr # <<>> /\ fs = fs0 /\ writes = <<>>)

\* a finished run of two files of which one failed and one was written
C1_Witness ==
    /\ pc = "done"
    /\ exit = <<0>>
    /\ Len(reads) = 2
    /\ Len(writes) = 1
    /\ \E j \in 1..2 : ReadRaised(j)

(* C2: without an interrupt the loop attempts every file of the list once,  *)
(* in list order: whatever failed before, each file is read, and a file     *)
(* that is read and transformed is routed to its output.                    *)
C2_EveryFileAttempted ==
    (pc \in {"loop", "done"} /\ interrupted = <<>> /\ files_to_process # <<>>) =>
        /\ Len(reads) = (IF pc = "done" THEN Len(files_to_process) ELSE idx - 1)
        /\ \A j \in 1..Len(reads) :
              /\ reads[j].path = files_to_process[j]
              /\ Deliverable(j) => (Delivered(j) \/ Reported(j))

\* the first file failed to read and the second one was delivered
C2_Witness ==
    /\ pc = "done"
    /\ interrupted = <<>>
    /\ Len(reads) = 2
    /\ ReadRaised(1)
    /\ Delivered(2)

(* C5: in verbose and in normal mode, a file whose read, transform or write *)
(* raised has a message about it on the error stream before the loop goes   *)
(* on to the next file.                                                     *)
C5_FailureReported ==
    interrupted = <<>> =>
        \A j \in 1..Len(reads) :
            (ReadRaised(j) \/ TransformRaised(j) \/ WriteRaised(j)) => Reported(j)

\* the loop stands before the second file, the write of the first one raised
C5_Witness ==
    /\ pc = "loop"
    /\ idx = 2
    /\ Len(files_to_process) = 2
    /\ WriteRaised(1)
    /\ Reported(1)

(* C7: a KeyboardInterrupt arriving during the iteration of position i ends *)
(* the run at once with status 130: no later file is read, printed or       *)
(* written, and the files written up to then stay as written.               *)
C7_InterruptStops ==
    interrupted # <<>> =>
        /\ pc = "done"
        /\ exit = <<InterruptExit>>
        /\ Len(reads) <= interrupted[1]
        /\ \A k \in 1..Len(writes) :
              /\ writes[k].pos <= interrupted[1]
              /\ IsFile(fs, writes[k].path)
              /\ fs[writes[k].path].content = writes[k].content
        /\ \A k \in 1..Len(stdout) :
              stdout[k].msg = "content" =>
                  \E j \in 1..(interrupted[1] - 1) : files_to_process[j] = stdout[k].path

\* interrupted while writing the second file, the first one written
C7_Witness ==
    /\ interrupted = <<2>>
    /\ Len(writes) = 1
    /\ \E p \in DOMAIN fs : IsFile(fs, p) /\ fs[p].content.kind = "partial"

----------------------------------------------------------------------------
(* Destinations.                                                           *)

\* --output-file is given and the list has exactly one element
OutputFileChosen == args.output_file # <<>> /\ Len(files_to_process) = 1

\* a file destination is chosen
FileDestination == OutputFileChosen \/ args.output # <<>>

\* the path inside the --output directory: stem, "_formatted", extension
DerivedPath(j) ==
    PathJoin(args.output[1],
             PathStem(files_to_process[j]) \o DefaultSuffix \o
             PathSuffix(files_to_process[j]))

Destination(j) == IF OutputFileChosen THEN args.output_file[1] ELSE DerivedPath(j)

\* the formatted content of the file at position j
Formatted(j) == Transform(reads[j].content, args, "none").value

\* the lines of the standard stream that carry a header or a content
OutputLines == {k \in 1..Len(stdout) : stdout[k].msg \in {"header", "content"}}

\* the files that are not as they were when the run started
ChangedFiles ==
    {p \in DOMAIN fs : IsFile(fs, p) /\ (p \notin DOMAIN fs0 \/ fs0[p] # fs[p])}

\* the result of position j went to the one destination the precedence names
RoutedByPrecedence(j) ==
    IF FileDestination
    THEN /\ Cardinality(WrittenAt(j)) = 1
         /\ \A k \in WrittenAt(j) :
               writes[k].path = Destination(j) /\ writes[k].content = Formatted(j)
         /\ PrintedAt(j) = {}
    ELSE /\ WrittenAt(j) = {}
         /\ Cardinality(PrintedAt(j)) = 1
         /\ \A k \in PrintedAt(j) :
               /\ stdout[k].content = Formatted(j)
               /\ k > 1
               /\ stdout[k - 1] = Line("header", files_to_process[j], NoContent)

\* the files changed are the destinations written
OnlyDestinationsWritten ==
    interrupted = <<>> => ChangedFiles \subseteq {writes[k].path : k \in 1..Len(writes)}

(* C3 as stated: every processed file goes to exactly one destination, the  *)
(* --output-file path if given and the list has one element, else the       *)
(* derived path in the --output directory if given, else the standard        *)
(* stream after a header; with a file destination the content is written to  *)
(* that path only and nothing is printed to the standard stream.             *)
C3_Original ==
    /\ \A j \in 1..Len(reads) : Delivered(j) => RoutedByPrecedence(j)
    /\ OnlyDestinationsWritten
    /\ (FileDestination /\ writes # <<>>) => stdout = <<>>

(* C3 amended: the same precedence; with a file destination the content is  *)
(* written to that path only and neither header nor content is printed to    *)
(* the standard stream, which stays empty unless -v is given (the verbose    *)
(* progress lines go to the standard stream).                                *)
C3_Routing ==
    /\ \A j \in 1..Len(reads) : Delivered(j) => RoutedByPrecedence(j)
    /\ OnlyDestinationsWritten
    /\ (FileDestination /\ writes # <<>>) =>
          (OutputLines = {} /\ (~args.verbose => stdout = <<>>))

\* one file, --output-file and --output both given, -v: written to the file
C3_Witness ==
    /\ pc = "done"
    /\ OutputFileChosen
    /\ args.output # <<>>
    /\ args.verbose
    /\ WrittenAt(1) # {}
    /\ stdout # <<>>

----------------------------------------------------------------------------
\* the transformations the claim names for the options given
ClaimedOps ==
    (IF args.dedent THEN <<Op("dedent", 0, <<>>)>> ELSE <<>>) \o
    << IF args.shorten # <<>> THEN Op("shorten", args.shorten[1], <<>>)
       ELSE IF args.preserve_paragraphs THEN Op("paragraphs", 0, <<>>)
       ELSE IF args.prefix # <<>> THEN Op("fill", 0, args.prefix[1])
       ELSE Op("fill", 0, <<>>) >>

(* C4: format_file applies dedent first exactly when --dedent is given and  *)
(* then exactly one transformation: shorten whenever --shorten is given,     *)
(* else paragraph-preserving fill whenever --preserve-paragraphs is given,   *)
(* else prefixed fill whenever --prefix is given, else plain fill.           *)
C4_TransformChoice ==
    \A j \in 1..Len(reads) :
        /\ \A k \in WrittenAt(j) :
              writes[k].content.ops = reads[j].content.ops \o ClaimedOps
        /\ \A k \in PrintedAt(j) :
              stdout[k].content.ops = reads[j].content.ops \o ClaimedOps

----------------------------------------------------------------------------
\* nothing was read, listed, printed or written
Untouched ==
    /\ reads = <<>>
    /\ writes = <<>>
    /\ files_to_process = <<>>
    /\ stdout = <<>>
    /\ fs = fs0

(* C6 as stated: without a positional input and without -d the run aborts  *)
(* at once with status 1, before any file is read, listed or written.       *)
C6_Original ==
    (pc # "start" /\ argv.input = <<>> /\ argv.directory = <<>>) =>
        (pc = "done" /\ exit = <<1>> /\ Untouched)

(* C6 amended: a command line that has arguments but neither a positional   *)
(* input nor -d aborts at once with status 2, argparse's usage status,       *)
(* before any file is read, listed or written; a command line without any    *)
(* argument is completed by main.py to -d <data> -w 70 and does not abort.   *)
C6_UsageAbort ==
    /\ (pc # "start" /\ argv # NoArgs /\ argv.input = <<>> /\ argv.directory = <<>>) =>
          (pc = "done" /\ exit = <<2>> /\ Untouched /\ Len(stderr) = 1)
    /\ (pc # "start" /\ argv = NoArgs) =>
          (args.directory = <<DataDir>> /\ exit # <<2>>)

\* a command line with -v alone has ended with status 2
C6_Witness ==
    /\ pc = "done"
    /\ argv = [NoArgs EXCEPT !.verbose = TRUE]
    /\ exit = <<2>>

----------------------------------------------------------------------------
(* C8: for an existing directory and any list of extensions find_text_files *)
(* returns exactly the regular files directly inside the directory whose     *)
(* name ends with one of the extensions, sorted ascending by path string,    *)
(* each path at most once.                                                   *)
C8_FindExact ==
    (find_call # <<>> /\ find_call[1].result.exc = NoExc) =>
        /\ {find_call[1].result.value[i] : i \in 1..Len(find_call[1].result.value)} =
              {p \in DOMAIN fs :
                  /\ Positions(p, "/") # {}
                  /\ PathParent(p) = find_call[1].directory
                  /\ IsFile(fs, p)
                  /\ \E i \in 1..Len(find_call[1].extensions) :
                        EndsWith(PathName(p), find_call[1].extensions[i])}
        /\ \A i, j \in 1..Len(find_call[1].result.value) :
              i < j => /\ ~StrLess(find_call[1].result.value[j], find_call[1].result.value[i])
                       /\ find_call[1].result.value[i] # find_call[1].result.value[j]

----------------------------------------------------------------------------
\* the regular files of a filesystem and their contents
FilesOf(f) == [p \in {q \in DOMAIN f : IsFile(f, q)} |-> f[p].content]

(* C9: verbosity affects only messages: the run with -v switched the other  *)
(* way, on the same filesystem with the same other options, ends with the    *)
(* same status and leaves the same files with the same contents.             *)
C9_VerbosityOnlyMessages ==
    (pc = "done" /\ interrupted = <<>> /\ exit # <<UsageExit>>) =>
        /\ MainOutcome(fs0, [args EXCEPT !.verbose = ~@]).exit = exit[1]
        /\ FilesOf(MainOutcome(fs0, [args EXCEPT !.verbose = ~@]).fs) = FilesOf(fs)

----------------------------------------------------------------------------
\* a file read without error had the content it had when the run started
ReadAsResolved(j) ==
    reads[j].exc = NoExc => reads[j].content = fs0[files_to_process[j]].content

====
